---- MODULE Spec2Model ----
(***************************************************************************)
(* docker-image-tags (src/src/main.rs): a paginated, rate-limit aware tag  *)
(* iterator (TagFetcher) feeding a per-(major, minor) maximum tracker      *)
(* (VersionSet), driven by main.                                           *)
(***************************************************************************)
EXTENDS Integers, Sequences, FiniteSets, Bags, TLC

\* ------------------------------------------------------------------ bounds
MaxPages == 2        \* longest chain of pages the registry serves
MaxTags == 2         \* most tags in the whole chain
MaxThrottles == 2    \* most 429 responses in one run
MaxTime == 1         \* the clock runs over 0..MaxTime
MaxInserts == 3      \* most maybe_insert calls in the VersionSet harness
MaxRepolls == 2      \* most pulls made after the iterator has ended

\* ---------------------------------------------------------------- versions
\* A pre-release identifier: numeric (compared by value) or alphanumeric
\* (rank = its place in ASCII order among the identifiers used here).
Num(n) == [num |-> TRUE, v |-> n]
Alnum(r) == [num |-> FALSE, v |-> r]
Rc1 == Alnum(1)
Rc2 == Alnum(2)

\* semver::Version: build is 0 for no build metadata, else the rank of the
\* build string.
Version(ma, mi, pa, pre, build) ==
    [major |-> ma, minor |-> mi, patch |-> pa, pre |-> pre, build |-> build]

V120 == Version(1, 2, 0, <<>>, 0)
V125 == Version(1, 2, 5, <<>>, 0)
V125b == Version(1, 2, 5, <<>>, 1)
V130 == Version(1, 3, 0, <<>>, 0)
V190 == Version(1, 9, 0, <<>>, 0)
V1100 == Version(1, 10, 0, <<>>, 0)
V200n1 == Version(2, 0, 0, <<Num(1)>>, 0)
V200rc1 == Version(2, 0, 0, <<Rc1>>, 0)
V200rc2 == Version(2, 0, 0, <<Rc2>>, 0)
V200 == Version(2, 0, 0, <<>>, 0)

\* The versions the VersionSet harness inserts.
Versions == {V120, V125, V125b, V130, V190, V1100, V200n1, V200rc1, V200rc2, V200}

NoVersion == [major |-> -1]

\* lenient_semver::parse on the tag names the registry serves: a leading "v"
\* and a missing patch are tolerated, anything else non-numeric fails.
Parse(name) ==
    CASE name = "1.2.0" -> V120
      [] name = "v1.2" -> V120
      [] name = "1.2.5" -> V125
      [] name = "1.2.5+b1" -> V125b
      [] name = "1.3.0" -> V130
      [] name = "2.0.0-rc1" -> V200rc1
      [] name = "2.0.0" -> V200
      [] OTHER -> NoVersion

\* Ordering of two integers, as Ord::cmp.
CmpInt(a, b) == IF a < b THEN -1 ELSE IF a > b THEN 1 ELSE 0

\* One pre-release identifier against another: numeric below alphanumeric.
CmpIdent(a, b) ==
    IF a.num /\ ~b.num THEN -1
    ELSE IF ~a.num /\ b.num THEN 1
    ELSE CmpInt(a.v, b.v)

RECURSIVE CmpIdents(_, _)
CmpIdents(p, q) ==
    IF p = <<>> /\ q = <<>> THEN 0
    ELSE IF p = <<>> THEN -1
    ELSE IF q = <<>> THEN 1
    ELSE IF CmpIdent(Head(p), Head(q)) # 0 THEN CmpIdent(Head(p), Head(q))
    ELSE CmpIdents(Tail(p), Tail(q))

\* semver::Prerelease ordering: no pre-release is above any pre-release.
CmpPre(p, q) ==
    IF p = <<>> /\ q = <<>> THEN 0
    ELSE IF p = <<>> THEN 1
    ELSE IF q = <<>> THEN -1
    ELSE CmpIdents(p, q)

\* Semantic-version precedence: major, minor, patch, pre-release; build
\* metadata does not take part.
CmpPrecedence(a, b) ==
    IF a.major # b.major THEN CmpInt(a.major, b.major)
    ELSE IF a.minor # b.minor THEN CmpInt(a.minor, b.minor)
    ELSE IF a.patch # b.patch THEN CmpInt(a.patch, b.patch)
    ELSE CmpPre(a.pre, b.pre)

\* A mutant of CmpVersion: build metadata is left out of the comparison.
CmpVersionNoBuild(a, b) == CmpPrecedence(a, b)

\* semver::Version's Ord: precedence, then build metadata, a total order.
CmpVersion(a, b) ==
    IF CmpPrecedence(a, b) # 0 THEN CmpPrecedence(a, b)
    ELSE CmpInt(a.build, b.build)

\* A mutant of VMax: the lesser of the two.
VMin(value, version) ==
    IF CmpVersion(value, version) = -1 THEN value ELSE version

\* Ord::max as used in `value.max(&mut version)`: the second argument unless
\* the first is strictly greater.
VMax(value, version) ==
    IF CmpVersion(value, version) = 1 THEN value ELSE version

\* MajorMinor { major, minor }
MajorMinor(version) == <<version.major, version.minor>>

\* A mutant of maybe_insert: the new version always takes the key's place.
maybe_insert_replace(vs, version) ==
    [k \in DOMAIN vs \cup {MajorMinor(version)} |->
        IF k = MajorMinor(version) THEN version ELSE vs[k]]

\* VersionSet::maybe_insert on the map vs (a function from keys to versions).
maybe_insert(vs, version) ==
    LET key == MajorMinor(version) IN
    IF key \in DOMAIN vs
    THEN [vs EXCEPT ![key] = VMax(vs[key], version)]
    ELSE [k \in DOMAIN vs \cup {key} |-> IF k = key THEN version ELSE vs[k]]

\* VersionSet::default()
EmptySet == [k \in {} |-> NoVersion]

\* ------------------------------------------------------------------ state
VARIABLES
    pages,      \* the registry: the result lists of the chain of pages
    next,       \* TagFetcher.next: the stored continuation token
    tags,       \* TagFetcher.tags: the buffer
    pc,         \* "idle": outside next(); "send": in refill_cache's loop
    url,        \* refill_cache's local url
    now,        \* the clock (Utc::now())
    versions,   \* main's VersionSet
    run,        \* main: "running", "printed" or "failed"
    stdout,     \* what main printed
    stderr,     \* the tag names main reported as unparsable
    last,       \* history: what the latest next() returned
    emitted,    \* history: the tags next() returned, with their provenance
    requests,   \* history: the URLs requested
    served,     \* history: the URLs answered with a page
    throttles,  \* history: the 429 responses seen
    slept,      \* history: the total time spent in thread::sleep
    retryAt,    \* history: the timestamp of the latest x-retry-after, -1 before
    fatal,      \* history: the fetch errors returned, in order
    repolls,    \* history: pulls made after the iterator has ended
    inserted    \* history: the versions given to maybe_insert, in order

fetcher == <<next, tags, pc, url>>
driver == <<versions, run, stdout, stderr, inserted>>
history == <<last, emitted, requests, served, throttles, slept, retryAt, fatal, repolls>>
vars == <<pages, fetcher, now, driver, history>>

\* Option::None in TagFetcher.next; a URL is the number of the page it names.
NoToken == 0
\* TagFetcher::new: the first page's URL.
FirstUrl == 1

\* The tag names the registry serves in the general specification.
TagNames == {"1.2.5", "2.0.0-rc1", "2.0.0", "garbage"}

RECURSIVE SeqsUpTo(_, _)
\* The sequences over S of length at most n.
SeqsUpTo(S, n) ==
    IF n = 0 THEN {<<>>}
    ELSE LET shorter == SeqsUpTo(S, n - 1) IN
         shorter \cup {Append(s, x) : s \in {t \in shorter : Len(t) = n - 1}, x \in S}

RECURSIVE TagCount(_)
\* The number of tags in a chain of pages.
TagCount(chain) ==
    IF chain = <<>> THEN 0 ELSE Len(Head(chain)) + TagCount(Tail(chain))

\* Every chain of 1..MaxPages pages (any of them possibly empty) holding at
\* most MaxTags tags in all.
Chains ==
    {c \in UNION {[1..n -> SeqsUpTo(TagNames, MaxTags)] : n \in 1..MaxPages} :
        TagCount(c) <= MaxTags}

\* struct Results as the registry answers for page u: the last page of the
\* chain carries no next token.
Results(u) ==
    [next |-> IF u < Len(pages) THEN u + 1 ELSE NoToken, results |-> pages[u]]

\* The buffer entries of a page: each Tag with its position in `results`.
TagsOf(u) == [i \in 1..Len(pages[u]) |-> [name |-> pages[u][i], page |-> u, pos |-> i]]

\* A mutant of Pop: the last element is returned and stays in the buffer.
PopKeeps(buf) == [item |-> buf[Len(buf)], rest |-> buf]

\* A mutant of Pop: the first element is taken.
PopFront(buf) == [item |-> Head(buf), rest |-> Tail(buf)]

\* Vec::pop on a non-empty buffer: the last element is taken.
Pop(buf) == [item |-> buf[Len(buf)], rest |-> SubSeq(buf, 1, Len(buf) - 1)]

RECURSIVE Decimal(_)
\* A u64 as `{}` formats it.
Decimal(n) ==
    LET digit == <<"0", "1", "2", "3", "4", "5", "6", "7", "8", "9">> IN
    IF n < 10 THEN digit[n + 1] ELSE Decimal(n \div 10) \o digit[(n % 10) + 1]

\* Serialize for MajorMinor: format!("{}.{}", major, minor).
KeyString(k) == Decimal(k[1]) \o "." \o Decimal(k[2])

\* One pre-release identifier as text.
IdentString(id) ==
    IF id.num THEN Decimal(id.v) ELSE IF id.v = 1 THEN "rc1" ELSE "rc2"

RECURSIVE IdentsString(_)
\* The identifiers of a pre-release, joined by dots.
IdentsString(pre) ==
    IF Len(pre) = 1 THEN IdentString(pre[1])
    ELSE IdentString(pre[1]) \o "." \o IdentsString(Tail(pre))

\* Display for semver::Version (`max.to_string()`).
to_string(v) ==
    Decimal(v.major) \o "." \o Decimal(v.minor) \o "." \o Decimal(v.patch)
        \o (IF v.pre = <<>> THEN "" ELSE "-" \o IdentsString(v.pre))
        \o (IF v.build = 0 THEN "" ELSE "+b" \o Decimal(v.build))

\* A mutant of KeyLeq: the keys are ordered as their texts are.
KeyLeqText(x, y) ==
    LET width(n) == IF n < 10 THEN 1 ELSE 2
        lead(n) == IF n < 10 THEN n ELSE n \div 10
    IN  \/ lead(x[1]) < lead(y[1])
        \/ /\ lead(x[1]) = lead(y[1])
           /\ \/ width(x[1]) < width(y[1])
              \/ /\ x[1] = y[1]
                 /\ \/ lead(x[2]) < lead(y[2])
                    \/ lead(x[2]) = lead(y[2]) /\ x[2] <= y[2]

\* The derived Ord of MajorMinor: major first, then minor, both as numbers.
KeyLeq(x, y) == x[1] < y[1] \/ (x[1] = y[1] /\ x[2] <= y[2])

RECURSIVE Serialize(_)
\* Serialize for VersionSet: collect_map over the BTreeMap's iterator, the
\* entries in ascending key order, each key and version as text.
Serialize(vs) ==
    IF DOMAIN vs = {} THEN <<>>
    ELSE LET k == CHOOSE x \in DOMAIN vs : \A y \in DOMAIN vs : KeyLeq(x, y)
         IN <<[key |-> KeyString(k), value |-> to_string(vs[k])]>>
              \o Serialize([y \in DOMAIN vs \ {k} |-> vs[y]])

\* ------------------------------------------------------------------- main
\* main's loop body on Some(Ok(tag)): parse, then insert or report.
MainOk(name) ==
    IF Parse(name) # NoVersion
    THEN /\ versions' = maybe_insert(versions, Parse(name))
         /\ inserted' = Append(inserted, Parse(name))
         /\ UNCHANGED <<run, stdout, stderr>>
    ELSE /\ stderr' = Append(stderr, name)
         /\ UNCHANGED <<versions, inserted, run, stdout>>

\* main on Some(Err(e)): `tag_result?` returns the error.
MainErr ==
    /\ run' = "failed"
    /\ UNCHANGED <<versions, inserted, stdout, stderr>>

\* A mutant of MainNone: the loop ends and nothing is printed.
MainNoneSilent ==
    /\ run' = "printed"
    /\ UNCHANGED <<versions, inserted, stdout, stderr>>

\* A mutant of MainNone: the loop goes on after None.
MainNoneSpin == UNCHANGED driver

\* main on None: the loop ends and the map is printed.
MainNone ==
    /\ run' = "printed"
    /\ stdout' = Append(stdout, Serialize(versions))
    /\ UNCHANGED <<versions, inserted, stderr>>

\* What the caller does with the value next() returns: main while its loop
\* runs, nothing once main is over.
Deliver(kind, name) ==
    IF run = "running"
    THEN CASE kind = "ok" -> MainOk(name)
           [] kind = "err" -> MainErr
           [] OTHER -> MainNone
    ELSE UNCHANGED driver

\* ------------------------------------------------------------- TagFetcher
\* The tail of next(): `self.tags.pop().map(Ok)` on the buffer buf.
PopReturn(buf) ==
    IF buf = <<>>
    THEN /\ tags' = buf
         /\ last' = "none"
         /\ emitted' = emitted
         /\ Deliver("none", "")
    ELSE /\ tags' = Pop(buf).rest
         /\ last' = "ok"
         /\ emitted' = Append(emitted, Pop(buf).item)
         /\ Deliver("ok", Pop(buf).item.name)

\* next() with a non-empty buffer.
PullBuffered ==
    /\ pc = "idle"
    /\ tags # <<>>
    /\ PopReturn(tags)
    /\ UNCHANGED <<pages, next, pc, url, now, requests, served, throttles, slept, retryAt, fatal>>

\* next() with an empty buffer and no token: refill_cache returns Ok(()).
PullExhausted ==
    /\ pc = "idle"
    /\ tags = <<>>
    /\ next = NoToken
    /\ PopReturn(tags)
    /\ UNCHANGED <<pages, next, pc, url, now, requests, served, throttles, slept, retryAt, fatal>>

\* A mutant of Take: the token stays in place.
TakeKeeps(token) == token

\* Option::take: what `self.next.take()` leaves behind in self.next.
Take(token) == NoToken

\* A mutant of PullFetch: the refill does not wait for the buffer to empty.
PullFetchEager ==
    /\ pc = "idle"
    /\ next # NoToken
    /\ url' = next
    /\ next' = Take(next)
    /\ pc' = "send"
    /\ last' = "pending"
    /\ UNCHANGED <<pages, tags, now, driver, emitted, requests, served, throttles, slept, retryAt, fatal>>

\* next() with an empty buffer and a token: refill_cache takes the token and
\* enters its request loop.
PullFetch ==
    /\ pc = "idle"
    /\ tags = <<>>
    /\ next # NoToken
    /\ url' = next
    /\ next' = Take(next)
    /\ pc' = "send"
    /\ last' = "pending"
    /\ UNCHANGED <<pages, tags, now, driver, emitted, requests, served, throttles, slept, retryAt, fatal>>

\* main's for loop calls next().
ByMain == run = "running" /\ repolls' = repolls

NextBuffered == ByMain /\ PullBuffered
NextExhausted == ByMain /\ PullExhausted
NextFetch == ByMain /\ PullFetch

\* Another holder of the iterator calls next() once main is over.
Late == run # "running" /\ repolls < MaxRepolls /\ repolls' = repolls + 1

LateBuffered == Late /\ PullBuffered
LateExhausted == Late /\ PullExhausted
LateFetch == Late /\ PullFetch

\* A mutant of RetryUrl: the retry goes to the following page.
RetryUrlNext(u) == IF u < Len(pages) THEN u + 1 ELSE u

\* `continue` in refill_cache's loop: the next request goes to the same url.
RetryUrl(u) == u

\* A mutant of SleepFor: no wait at all.
SleepForNone(ts, t) == 0

\* A mutant of SleepFor: the wait is the distance to the timestamp.
SleepForAbs(ts, t) == IF ts >= t THEN ts - t ELSE t - ts

\* (retry_after - Utc::now()).to_std(): the time to sleep, none when negative.
SleepFor(ts, t) == IF ts - t >= 0 THEN ts - t ELSE 0

\* The request is answered 429 with an x-retry-after header that parses to
\* the timestamp ts: sleep until ts when it lies ahead, then `continue`.
RespThrottled(ts) ==
    /\ pc = "send"
    /\ throttles < MaxThrottles
    /\ requests' = Append(requests, url)
    /\ throttles' = throttles + 1
    /\ retryAt' = ts
    /\ slept' = slept + SleepFor(ts, now)
    /\ now' = now + SleepFor(ts, now)
    /\ url' = RetryUrl(url)
    /\ UNCHANGED <<pages, next, tags, pc, driver, last, emitted, served, fatal, repolls>>

\* A mutant of Fail: the error is swallowed and the pull goes on to pop.
FailSwallowed(kind) ==
    /\ pc = "send"
    /\ requests' = Append(requests, url)
    /\ fatal' = Append(fatal, kind)
    /\ pc' = "idle"
    /\ url' = NoToken
    /\ last' = "none"
    /\ Deliver("none", "")
    /\ UNCHANGED <<pages, next, tags, now, emitted, served, throttles, slept, retryAt, repolls>>

\* refill_cache returns Err(e) and next() hands it on as Some(Err(e)).
Fail(kind) ==
    /\ pc = "send"
    /\ requests' = Append(requests, url)
    /\ fatal' = Append(fatal, kind)
    /\ pc' = "idle"
    /\ url' = NoToken
    /\ last' = "err"
    /\ Deliver("err", "")
    /\ UNCHANGED <<pages, next, tags, now, emitted, served, throttles, slept, retryAt, repolls>>

\* send() fails.
RespTransportError == Fail("transport")
\* 429 without an x-retry-after header.
RespThrottledNoHeader == Fail("no_header")
\* 429 whose x-retry-after is not a string, not an integer or out of range.
RespThrottledBadHeader == Fail("bad_header")
\* A non-success status other than 429: error_for_status fails.
RespErrorStatus == Fail("status")
\* A success status whose body is not a Results document.
RespBadBody == Fail("body")

\* A success status with the page: token and buffer are replaced, then
\* next() pops.
RespPage ==
    /\ pc = "send"
    /\ requests' = Append(requests, url)
    /\ served' = Append(served, url)
    /\ next' = Results(url).next
    /\ PopReturn(TagsOf(url))
    /\ pc' = "idle"
    /\ url' = NoToken
    /\ UNCHANGED <<pages, now, throttles, slept, retryAt, fatal, repolls>>

\* Time passes while a request is in flight.
Tick ==
    /\ pc = "send"
    /\ now < MaxTime
    /\ now' = now + 1
    /\ UNCHANGED <<pages, fetcher, driver, history>>

Init ==
    /\ pages \in Chains
    /\ next = FirstUrl
    /\ tags = <<>>
    /\ pc = "idle"
    /\ url = NoToken
    /\ now = 0
    /\ versions = EmptySet
    /\ run = "running"
    /\ stdout = <<>>
    /\ stderr = <<>>
    /\ last = "start"
    /\ emitted = <<>>
    /\ requests = <<>>
    /\ served = <<>>
    /\ throttles = 0
    /\ slept = 0
    /\ retryAt = -1
    /\ fatal = <<>>
    /\ repolls = 0
    /\ inserted = <<>>

\* main: the for loop pulls until next() returns None or an error.
Next ==
    \/ NextBuffered
    \/ NextExhausted
    \/ NextFetch
    \/ \E ts \in 0..MaxTime : RespThrottled(ts)
    \/ RespTransportError
    \/ RespThrottledNoHeader
    \/ RespThrottledBadHeader
    \/ RespErrorStatus
    \/ RespBadBody
    \/ RespPage
    \/ Tick

Spec == Init /\ [][Next]_vars

\* The TagFetcher under any caller: pulls go on after main is over.
IterNext ==
    \/ Next
    \/ LateBuffered
    \/ LateExhausted
    \/ LateFetch

SpecIter == Init /\ [][IterNext]_vars

\* ------------------------------------------------- the VersionSet alone
\* A VersionSet given any sequence of versions, outside main: the fetcher
\* is left as constructed over an empty single page.
InitVS ==
    /\ pages = <<<<>>>>
    /\ next = FirstUrl
    /\ tags = <<>>
    /\ pc = "idle"
    /\ url = NoToken
    /\ now = 0
    /\ versions = EmptySet
    /\ run = "running"
    /\ stdout = <<>>
    /\ stderr = <<>>
    /\ last = "start"
    /\ emitted = <<>>
    /\ requests = <<>>
    /\ served = <<>>
    /\ throttles = 0
    /\ slept = 0
    /\ retryAt = -1
    /\ fatal = <<>>
    /\ repolls = 0
    /\ inserted = <<>>

\* versions.maybe_insert(v)
Insert(v) ==
    /\ run = "running"
    /\ Len(inserted) < MaxInserts
    /\ versions' = maybe_insert(versions, v)
    /\ inserted' = Append(inserted, v)
    /\ UNCHANGED <<pages, fetcher, now, run, stdout, stderr, history>>

\* println!("{}", serde_json::to_string_pretty(&versions)) of the map so far.
WriteOut ==
    /\ run = "running"
    /\ run' = "printed"
    /\ stdout' = Append(stdout, Serialize(versions))
    /\ UNCHANGED <<pages, fetcher, now, versions, inserted, stderr, history>>

NextVS ==
    \/ \E v \in Versions : Insert(v)
    \/ WriteOut

SpecVS == InitVS /\ [][NextVS]_vars

\* ----------------------------------------------------------------- claims
InsertedSet == {inserted[i] : i \in DOMAIN inserted}

\* C4: after any sequence of maybe_insert calls the map has exactly the
\* (major, minor) pairs of the inserted versions as its keys, and the value
\* under a key is an inserted version of that pair that no inserted version
\* of that pair exceeds in semantic-version precedence.
C4_MaxPerKey ==
    /\ DOMAIN versions = {MajorMinor(v) : v \in InsertedSet}
    /\ \A k \in DOMAIN versions :
        /\ versions[k] \in InsertedSet
        /\ MajorMinor(versions[k]) = k
        /\ \A w \in InsertedSet :
            MajorMinor(w) = k => CmpPrecedence(w, versions[k]) <= 0

\* A release was inserted before its pre-release, next to another key.
C4_Witness ==
    /\ \E i, j \in DOMAIN inserted : i < j /\ inserted[i] = V200 /\ inserted[j] = V200rc1
    /\ Cardinality(DOMAIN versions) >= 2
    /\ versions[<<2, 0>>] = V200

RECURSIVE InsertAll(_, _)
\* maybe_insert applied to the versions of seq from left to right.
InsertAll(vs, seq) ==
    IF seq = <<>> THEN vs ELSE InsertAll(maybe_insert(vs, Head(seq)), Tail(seq))

\* The rearrangements of a sequence.
Permuted(seq) ==
    {[i \in DOMAIN seq |-> seq[p[i]]] : p \in Permutations(DOMAIN seq)}

\* C5: the map built by the calls made so far is the map every other order
\* of the same calls builds.
C5_OrderIndependent ==
    \A seq \in Permuted(inserted) : InsertAll(EmptySet, seq) = versions

\* Three calls on one key whose orders differ in the intermediate maps:
\* versions equal in precedence but not in build metadata are among them.
C5_Witness ==
    /\ Len(inserted) = 3
    /\ {V125, V125b} \subseteq InsertedSet
    /\ Cardinality(InsertedSet) = 3
    /\ Cardinality(DOMAIN versions) = 1

\* ------------------------------------------------- helpers of the claims
NamesOf(items) == [i \in DOMAIN items |-> items[i].name]

Reverse(seq) == [i \in DOMAIN seq |-> seq[Len(seq) + 1 - i]]

RECURSIVE Flatten(_)
\* The tags of every page of a chain, in order.
Flatten(chain) ==
    IF chain = <<>> THEN <<>> ELSE Head(chain) \o Flatten(Tail(chain))

\* The multiset of the elements of a sequence.
BagOfSeq(seq) ==
    [x \in {seq[i] : i \in DOMAIN seq} |-> Cardinality({i \in DOMAIN seq : seq[i] = x})]

IsPrefix(s, t) == Len(s) <= Len(t) /\ SubSeq(t, 1, Len(s)) = s

RemoveAt(seq, i) == SubSeq(seq, 1, i - 1) \o SubSeq(seq, i + 1, Len(seq))

Parsable(name) == Parse(name) # NoVersion
Unparsable(name) == Parse(name) = NoVersion

\* The versions main inserts when it receives the names in this order.
ParsedOf(names) ==
    LET good == SelectSeq(names, Parsable) IN [i \in DOMAIN good |-> Parse(good[i])]

RECURSIVE RunNames(_)
\* The names main's loop receives over a chain when every request is
\* answered with its page at once: each page from its last tag to its first,
\* the loop ending with the first pull that finds a fetched page empty.
RunNames(chain) ==
    IF chain = <<>> \/ Head(chain) = <<>> THEN <<>>
    ELSE Reverse(Head(chain)) \o RunNames(Tail(chain))

\* The map main prints after such a run.
FinalMap(chain) == InsertAll(EmptySet, ParsedOf(RunNames(chain)))

\* ------------------------------------------------------ claims C1 to C10
\* C1: when next() first returns None, no request having failed, the
\* multiset of the names it returned is the multiset of all tags of all
\* pages of the chain.
C1_EveryTagOnce ==
    (last = "none" /\ fatal = <<>> /\ repolls = 0)
        => BagOfSeq(NamesOf(emitted)) = BagOfSeq(Flatten(pages))

\* C2 as stated: of two tags of one page, the one earlier in the page's
\* results is returned by the earlier pull.
C2_PageOrder ==
    \A i, j \in DOMAIN emitted :
        (emitted[i].page = emitted[j].page /\ emitted[i].pos < emitted[j].pos)
            => i < j

\* C2 amended: of two tags of one page, the one earlier in the page's
\* results is returned by the later pull.
C2_ReversePageOrder ==
    \A i, j \in DOMAIN emitted :
        (emitted[i].page = emitted[j].page /\ emitted[i].pos < emitted[j].pos)
            => i > j

\* Two tags of one page have been returned.
C2_Witness ==
    \E i, j \in DOMAIN emitted :
        i # j /\ emitted[i].page = emitted[j].page /\ emitted[i].name # emitted[j].name

\* C3: next() has returned None only where the buffer is empty and no
\* continuation token is stored.
C3_NoneOnlyWhenDrained ==
    last = "none" => (tags = <<>> /\ next = NoToken)

\* C6: the map is printed only after every tag of every page of the chain
\* was returned, with no fetch error, and it is the map of all those tags;
\* after a fetch error nothing is printed and main has failed.
C6_AllOrNothing ==
    /\ stdout # <<>> =>
        /\ fatal = <<>>
        /\ Len(emitted) = Len(Flatten(pages))
        /\ stdout = <<Serialize(InsertAll(EmptySet, ParsedOf(Flatten(pages))))>>
    /\ fatal # <<>> => (stdout = <<>> /\ run = "failed")

\* C7: a 429 with a usable header leaves the fetcher at the same url in the
\* request loop, returns nothing to the caller and changes nothing the
\* caller sees; and whatever the number of 429s, the names returned are those
\* of the run over the same pages without any 429.
C7_ThrottleInvisible ==
    /\ [](fatal = <<>> =>
            /\ IsPrefix(NamesOf(emitted), RunNames(pages))
            /\ run = "printed" => NamesOf(emitted) = RunNames(pages))
    /\ [][throttles' = throttles + 1 =>
            /\ url' = url
            /\ pc' = "send"
            /\ requests' = Append(requests, url)
            /\ <<next, tags, last, emitted, fatal>>' = <<next, tags, last, emitted, fatal>>
            /\ driver' = driver]_vars

\* Two 429s came before the pages of a two-page run that ended in print.
C7_Witness ==
    /\ throttles >= 2
    /\ run = "printed"
    /\ Len(served) = 2
    /\ Len(emitted) >= 2
    /\ Len(requests) = Len(served) + throttles

HasFatal(kind) == \E i \in DOMAIN fatal : fatal[i] = kind

\* C8: the step that answers 429 without the header returns the error after
\* that one request, and from then on no step issues a request or returns a
\* tag.
C8_NoHeaderFatal ==
    [][/\ fatal' = Append(fatal, "no_header") =>
            /\ last' = "err"
            /\ pc' = "idle"
            /\ requests' = Append(requests, url)
            /\ emitted' = emitted
       /\ HasFatal("no_header") =>
            /\ requests' = requests
            /\ emitted' = emitted
            /\ last' = "none"]_vars

\* After tags of the first page, the second request met a 429 without the
\* header, and the caller pulled twice more.
C8_Witness ==
    /\ fatal = <<"no_header">>
    /\ Len(emitted) >= 1
    /\ Len(requests) = 2
    /\ repolls >= 2

\* C9: a 429 whose x-retry-after timestamp is not later than the clock adds
\* nothing to the time slept, leaves the clock alone and leaves the fetcher
\* in the request loop at the same url.
C9_PastNoSleep ==
    [][(throttles' = throttles + 1 /\ retryAt' <= now) =>
            /\ slept' = slept
            /\ now' = now
            /\ pc' = "send"
            /\ url' = url]_vars

\* A 429 with a timestamp in the past was followed, with no sleep, by a
\* second request to the same url.
C9_Witness ==
    /\ throttles = 1
    /\ retryAt >= 0
    /\ retryAt < now
    /\ slept = 0
    /\ Len(requests) = 2
    /\ requests[1] = requests[2]

\* C10: every unparsable name returned is on the error stream exactly once,
\* main fails only on a fetch error, and the printed map is the map of the
\* run over the chain without any one of its unparsable tags (RunNames is
\* the run main makes over a chain: C7 checks it against every chain).
C10_UnparsableIgnored ==
    /\ stderr = SelectSeq(NamesOf(emitted), Unparsable)
    /\ run = "failed" => fatal # <<>>
    /\ run = "printed" =>
        \A u \in DOMAIN pages : \A i \in DOMAIN pages[u] :
            Unparsable(pages[u][i]) =>
                stdout = <<Serialize(FinalMap([pages EXCEPT ![u] = RemoveAt(@, i)]))>>

\* ----------------------------------------------------- claims C11 to C20
\* C11: what is printed has one entry per key of the map, each the key as
\* "{major}.{minor}" with the full text of its version, and the entries stand
\* in ascending order of major, then minor, both compared as numbers.
C11_SortedOutput ==
    stdout # <<>> =>
        LET out == stdout[1] IN
        /\ Len(out) = Cardinality(DOMAIN versions)
        /\ \A k \in DOMAIN versions :
            \E i \in DOMAIN out :
                out[i] = [key |-> KeyString(k), value |-> to_string(versions[k])]
        /\ \A i, j \in DOMAIN out : \A k, l \in DOMAIN versions :
            (i < j /\ out[i].key = KeyString(k) /\ out[j].key = KeyString(l))
                => (k[1] < l[1] \/ (k[1] = l[1] /\ k[2] < l[2]))

\* The keys 1.9, 1.10 and 2.0 were printed in that order.
C11_Witness ==
    stdout = << <<[key |-> "1.9", value |-> "1.9.0"],
                  [key |-> "1.10", value |-> "1.10.0"],
                  [key |-> "2.0", value |-> "2.0.0-rc1"]>> >>

\* The two pages of the worked example: four tags and the token T2, then
\* two tags and no token.
ExamplePages ==
    << <<"1.2.0", "1.2.5", "1.3.0", "2.0.0-rc1">>, <<"2.0.0", "garbage">> >>

\* main started against a registry that holds the example's pages.
InitExample ==
    /\ pages = ExamplePages
    /\ next = FirstUrl
    /\ tags = <<>>
    /\ pc = "idle"
    /\ url = NoToken
    /\ now = 0
    /\ versions = EmptySet
    /\ run = "running"
    /\ stdout = <<>>
    /\ stderr = <<>>
    /\ last = "start"
    /\ emitted = <<>>
    /\ requests = <<>>
    /\ served = <<>>
    /\ throttles = 0
    /\ slept = 0
    /\ retryAt = -1
    /\ fatal = <<>>
    /\ repolls = 0
    /\ inserted = <<>>

SpecExample == InitExample /\ [][Next]_vars

\* C12: over the example's pages a run that ends in print has fetched the
\* first URL and then T2 (each request beyond those two a retry after a
\* 429), holds and prints 1.2 -> 1.2.5, 1.3 -> 1.3.0, 2.0 -> 2.0.0 and has
\* reported "garbage" and nothing else.
C12_Example ==
    run = "printed" =>
        /\ served = <<FirstUrl, 2>>
        /\ Len(requests) = 2 + throttles
        /\ throttles = 0 => requests = <<FirstUrl, 2>>
        /\ DOMAIN versions = {<<1, 2>>, <<1, 3>>, <<2, 0>>}
        /\ versions[<<1, 2>>] = V125
        /\ versions[<<1, 3>>] = V130
        /\ versions[<<2, 0>>] = V200
        /\ stdout = << <<[key |-> "1.2", value |-> "1.2.5"],
                         [key |-> "1.3", value |-> "1.3.0"],
                         [key |-> "2.0", value |-> "2.0.0"]>> >>
        /\ stderr = <<"garbage">>

\* The example ran to its end with every request answered by its page.
C12_Witness ==
    /\ pages = ExamplePages
    /\ run = "printed"
    /\ requests = <<FirstUrl, 2>>
    /\ Len(emitted) = 6

\* C13: when the registry holds one page with no results and no token, the
\* pull that gets it has made one request (beyond retries after 429s),
\* returns None with no error, leaves the VersionSet empty and main prints
\* the empty object.
C13_EmptyPage ==
    (pages = <<<<>>>> /\ served # <<>>) =>
        /\ served = <<FirstUrl>>
        /\ Len(requests) = 1 + throttles
        /\ last = "none"
        /\ fatal = <<>>
        /\ emitted = <<>>
        /\ versions = EmptySet
        /\ run = "printed"
        /\ stdout = << <<>> >>

\* The single empty page was served at the first request.
C13_Witness ==
    /\ pages = <<<<>>>>
    /\ requests = <<FirstUrl>>
    /\ served = <<FirstUrl>>
    /\ run = "printed"

\* C14: the step that meets a non-success status other than 429 makes that
\* one request and returns the error, with the buffer empty before and after
\* and the map, the token and the tags returned untouched; from then on no
\* step issues a request.
C14_StatusNotRetried ==
    [][/\ fatal' = Append(fatal, "status") =>
            /\ requests' = Append(requests, url)
            /\ last' = "err"
            /\ pc' = "idle"
            /\ tags = <<>> /\ tags' = <<>>
            /\ next' = NoToken
            /\ <<versions, inserted, emitted, served>>' = <<versions, inserted, emitted, served>>
            /\ run = "running" => run' = "failed"
       /\ HasFatal("status") => requests' = requests]_vars

\* The second page's request met the error status after the first page's
\* tags had been returned, and the caller pulled again.
C14_Witness ==
    /\ fatal = <<"status">>
    /\ served = <<FirstUrl>>
    /\ requests = <<FirstUrl, 2>>
    /\ Len(emitted) >= 1
    /\ repolls >= 1

\* C15: a 429 whose x-retry-after timestamp lies ahead of the clock blocks
\* for the difference and leaves the fetcher in the request loop at the same
\* url; and in every state the clock is at or past the latest timestamp
\* received, so no request is issued before it.
C15_WaitUntilRetryAfter ==
    /\ [](retryAt <= now)
    /\ [][(throttles' = throttles + 1 /\ retryAt' > now) =>
            /\ slept' = slept + (retryAt' - now)
            /\ now' = retryAt'
            /\ url' = url
            /\ pc' = "send"
            /\ requests' = Append(requests, url)]_vars

\* After a 429 with a timestamp ahead, the thread slept until it and the
\* same url was requested again.
C15_Witness ==
    /\ throttles >= 1
    /\ slept >= 1
    /\ retryAt = now
    /\ Len(requests) >= 2
    /\ requests[1] = requests[2]

\* C16: a pull made with a non-empty buffer issues no request, sleeps for no
\* time, leaves the token as it is, and takes exactly one tag out of the
\* buffer, which is the tag it returns.
C16_BufferedPull ==
    [][(pc = "idle" /\ tags # <<>>) =>
            /\ requests' = requests
            /\ served' = served
            /\ throttles' = throttles
            /\ slept' = slept
            /\ now' = now
            /\ next' = next
            /\ pc' = "idle"
            /\ last' = "ok"
            /\ \E i \in DOMAIN tags :
                /\ tags' = RemoveAt(tags, i)
                /\ emitted' = Append(emitted, tags[i])]_vars

\* A page of two tags was fetched with one request and both were returned,
\* the second from the buffer.
C16_Witness ==
    /\ Len(requests) = 1
    /\ Len(emitted) = 2
    /\ tags = <<>>
    /\ last = "ok"

\* C17: every stored version has the major and minor of its key; and one
\* maybe_insert removes no key, leaves the value under every key but the
\* inserted version's as it was, and puts under that key a value not below,
\* in semantic-version order, the one it held.
C17_MonotoneMap ==
    /\ [](\A k \in DOMAIN versions : MajorMinor(versions[k]) = k)
    /\ [][inserted' # inserted =>
            LET v == inserted'[Len(inserted')]
                key == MajorMinor(v)
            IN  /\ DOMAIN versions \subseteq DOMAIN versions'
                /\ DOMAIN versions' = DOMAIN versions \cup {key}
                /\ \A k \in DOMAIN versions :
                    /\ k # key => versions'[k] = versions[k]
                    /\ k = key => CmpPrecedence(versions[k], versions'[k]) <= 0
                /\ CmpPrecedence(v, versions'[key]) <= 0]_vars

\* A lower version was inserted under a key that already held a higher one,
\* with another key in the map.
C17_Witness ==
    /\ inserted = <<V130, V125, V120>>
    /\ versions[<<1, 2>>] = V125
    /\ versions[<<1, 3>>] = V130

FatalKinds == {"transport", "body", "bad_header", "no_header", "status"}

\* C18: a fetch error of any kind is returned after the one request that met
\* it; once one has been returned the token is None, the buffer is empty and
\* the fetcher is outside its request loop, and every later step is a pull
\* that returns None with no request made and no tag returned.
C18_FailureTerminal ==
    /\ [](fatal # <<>> =>
            /\ next = NoToken
            /\ tags = <<>>
            /\ pc = "idle"
            /\ Len(fatal) = 1
            /\ fatal[1] \in FatalKinds)
    /\ [][/\ fatal' # fatal =>
                /\ requests' = Append(requests, url)
                /\ last' = "err"
          /\ fatal # <<>> =>
                /\ requests' = requests
                /\ emitted' = emitted
                /\ fatal' = fatal
                /\ last' = "none"]_vars

\* After a tag of the first page, the second request met a 429 with an
\* unusable header and the caller pulled twice more.
C18_Witness ==
    /\ fatal = <<"bad_header">>
    /\ requests = <<FirstUrl, 2>>
    /\ Len(emitted) >= 1
    /\ repolls = 2
    /\ last = "none"

ItemsOf(seq) == {seq[i] : i \in DOMAIN seq}

\* C19: the request loop runs only with the buffer empty; outside it the
\* buffer holds, in page order, exactly the tags of the page fetched last that
\* have not been returned; a page is taken in only over an empty buffer and
\* sets the token to that page's next; and no URL is answered with a page
\* twice.
C19_OnePageBuffer ==
    /\ [](/\ pc = "send" => tags = <<>>
          /\ served = <<>> => tags = <<>>
          /\ (served # <<>> /\ pc = "idle") =>
                LET u == served[Len(served)] IN
                /\ IsPrefix(tags, TagsOf(u))
                /\ ItemsOf(tags) = ItemsOf(TagsOf(u)) \ ItemsOf(emitted)
          /\ \A i, j \in DOMAIN served : served[i] = served[j] => i = j)
    /\ [][served' # served =>
            /\ tags = <<>>
            /\ served' = Append(served, url)
            /\ next' = Results(url).next]_vars

\* Both pages of a chain were fetched and the first tag of the second page
\* is still in the buffer.
C19_Witness ==
    /\ served = <<FirstUrl, 2>>
    /\ Len(tags) = 1
    /\ Len(emitted) = 1
    /\ emitted[1].page = 2

\* ------------------------------------------------------------ progress
\* main's thread calls next() whenever it is outside one.
MainPulls == NextBuffered \/ NextExhausted \/ NextFetch

\* The request in flight is answered: by a 429 with a usable header while
\* the registry still throttles (at most MaxThrottles times in all), else by
\* a page or by a failure.
Answered ==
    \/ \E ts \in 0..MaxTime : RespThrottled(ts)
    \/ RespTransportError
    \/ RespThrottledNoHeader
    \/ RespThrottledBadHeader
    \/ RespErrorStatus
    \/ RespBadBody
    \/ RespPage

\* main with its one thread always running and every request answered in
\* the end.
SpecLive == Init /\ [][Next]_vars /\ WF_vars(MainPulls) /\ WF_vars(Answered)

\* C20: over a finite chain, with every request answered and only finitely
\* many 429s, main's loop comes to its end: the map is printed or main has
\* failed.
C20_Terminates == <>(run # "running")

\* A run over two pages ended after as many 429s as the registry sends.
C20_Witness ==
    /\ run # "running"
    /\ throttles = MaxThrottles
    /\ Len(served) = 2

====
